---------------------------- MODULE Spec2Model ----------------------------
(***************************************************************************)
(* Model of src/main.cpp: the gap-filling pass replaceMissingValues, the   *)
(* numeric parser isValidDouble, the date difference                        *)
(* obtenerDiferenciaEnAnios, the Black-Scholes pricer with its bisection    *)
(* solver findImpliedVolatility, and the per-record loop of main.           *)
(*                                                                         *)
(* Numbers.  A std::string is a sequence of one-character strings.  A      *)
(* double that comes out of the parser is an integer count of half-micros  *)
(* (5 * 10^-7): every string of the model has at most six fractional       *)
(* digits, so a parsed value is an even count and the mean of two parsed   *)
(* values is an exact count.  std::to_string prints six fractional digits. *)
(* size_t indices are 0-based as in the code: the record vector is a       *)
(* function on 0 .. size-1.                                                *)
(***************************************************************************)
EXTENDS Integers, Sequences, FiniteSets, TLC

VARIABLES
    datos,      \* std::vector<Data>: function 0 .. size-1 -> Data
    datos0,     \* the vector as it was when replaceMissingValues was called
    beyond,     \* what the last-row block that just ran stored at index size()
    pc,         \* position in the program
    fld,        \* which of the four copies of a block is running (1 .. 4)
    idx,        \* loop counter i of the running block
    oob,        \* some access used an index outside 0 .. size-1
    dataframe,  \* std::vector<OptionData> built by main
    bis,        \* locals of findImpliedVolatility
    fechas      \* arguments and result of obtenerDiferenciaEnAnios

vars == <<datos, datos0, beyond, pc, fld, idx, oob, dataframe, bis, fechas>>

----------------------------------------------------------------------------
(* Bounds of the model *)

\* Longest record vector read from the file.
MaxLen == 4

----------------------------------------------------------------------------
(* Strings and the numeric parser, main.cpp 126-151 *)

Digits == {"0", "1", "2", "3", "4", "5", "6", "7", "8", "9"}

DigitVal(c) ==
    CASE c = "0" -> 0 [] c = "1" -> 1 [] c = "2" -> 2 [] c = "3" -> 3
      [] c = "4" -> 4 [] c = "5" -> 5 [] c = "6" -> 6 [] c = "7" -> 7
      [] c = "8" -> 8 [] c = "9" -> 9

\* Fractional digits printed by std::to_string(double) ("%f").
FracDigits == 6

RECURSIVE Pow10(_)
Pow10(k) == IF k = 0 THEN 1 ELSE 10 * Pow10(k - 1)

\* One unit of a double, counted in half-micros.
One == 2 * Pow10(FracDigits)

\* The loop of lines 136-138: every ',' becomes '.'.
ReplaceCommas(str) ==
    [k \in 1..Len(str) |-> IF str[k] = "," THEN "." ELSE str[k]]

\* Number of consecutive digits of s from position k on.
RECURSIVE DigitRun(_, _)
DigitRun(s, k) ==
    IF k <= Len(s) /\ s[k] \in Digits THEN 1 + DigitRun(s, k + 1) ELSE 0

\* Value of the m digits of s that start at position k.
RECURSIVE DigitsValue(_, _, _)
DigitsValue(s, k, m) ==
    IF m = 0 THEN 0
    ELSE 10 * DigitsValue(s, k, m - 1) + DigitVal(s[k + m - 1])

\* std::stod(s, &pos) on the characters of the model (sign, digits, one
\* decimal point): conv is FALSE where stod throws invalid_argument, pos is
\* the number of characters consumed, val the value in half-micros.
Stod(s) ==
    LET neg   == Len(s) >= 1 /\ s[1] = "-"
        start == IF neg THEN 2 ELSE 1
        ni    == DigitRun(s, start)
        dot   == start + ni <= Len(s) /\ s[start + ni] = "."
        nf    == IF dot THEN DigitRun(s, start + ni + 1) ELSE 0
        used  == (start - 1) + ni + (IF dot THEN 1 + nf ELSE 0)
        mag   == DigitsValue(s, start, ni) * One
                 + 2 * DigitsValue(s, start + ni + 1, nf) * Pow10(FracDigits - nf)
    IN  IF ni + nf = 0
        THEN [conv |-> FALSE, pos |-> 0, val |-> 0]
        ELSE [conv |-> TRUE, pos |-> used, val |-> IF neg THEN -mag ELSE mag]

\* isValidDouble(str, result): ok is the return value, result the second
\* parameter after the call (line 142 assigns it before line 144 compares).
IsValidDouble(str, result) ==
    LET strWithDot == ReplaceCommas(str)
        r          == Stod(strWithDot)
    IN  IF r.conv
        THEN [ok |-> r.pos = Len(strWithDot), result |-> r.val]
        ELSE [ok |-> FALSE, result |-> result]

Valid(str) == IsValidDouble(str, 0).ok
Parsed(str) == IsValidDouble(str, 0).result

\* Decimal digits of a natural number.
RECURSIVE NatToChars(_)
NatToChars(m) ==
    IF m < 10 THEN <<CHOOSE c \in Digits : DigitVal(c) = m>>
    ELSE NatToChars(m \div 10) \o NatToChars(m % 10)

\* The k low digits of m, with leading zeros.
RECURSIVE Padded(_, _)
Padded(m, k) ==
    IF k = 0 THEN <<>> ELSE Padded(m \div 10, k - 1) \o NatToChars(m % 10)

\* "%f" of a value that is a whole number of micros.
FormatMicros(u) ==
    LET a == IF u < 0 THEN -u ELSE u
    IN  (IF u < 0 THEN <<"-">> ELSE <<>>)
        \o NatToChars(a \div Pow10(FracDigits))
        \o <<".">>
        \o Padded(a % Pow10(FracDigits), FracDigits)

\* std::to_string(v), v in half-micros.  A value halfway between two
\* printable numbers is rounded by the binary value of the double, which the
\* model does not carry: either neighbour is possible.
ToStrings(v) ==
    IF v % 2 = 0 THEN {FormatMicros(v \div 2)}
    ELSE {FormatMicros((v - 1) \div 2), FormatMicros((v + 1) \div 2)}


----------------------------------------------------------------------------
(* replaceMissingValues, main.cpp 323-513 *)

\* The four numeric fields in the order of the first-row blocks (327-361)
\* and of the interior loops (365-471), and in the order of the last-row
\* blocks (475-509).
FirstOrder == <<"ask", "bid", "underBid", "underAsk">>
LastOrder == <<"ask", "bid", "underAsk", "underBid">>
Fields == {"ask", "bid", "underBid", "underAsk"}

Size(d) == Cardinality(DOMAIN d)

\* size_t arithmetic wraps.  The width stands for the 64 bits of size_t: any
\* modulus above every index of the model gives the same runs.
SizeModulus == 2 ^ 16
SizeSub(a, b) == (a - b) % SizeModulus

\* The double -1 that lines 367-368 use for "no anchor found".
MinusOne == -One

\* What a std::string read outside the vector may hold when it parses: the
\* bytes are whatever the heap holds there.
GarbageStrings == {<<"-", "1">>, <<"3">>}

\* for (size_t i = from; i < data.size(); i++) if valid break: the value of
\* i when the loop stops (data.size() when no valid value was found).
RECURSIVE ScanForward(_, _, _)
ScanForward(d, f, from) ==
    IF from < Size(d)
    THEN IF Valid(d[from][f]) THEN from ELSE ScanForward(d, f, from + 1)
    ELSE Size(d)

\* for (size_t j = from; j >= 0; j--) if valid break: the index of the
\* first access that is valid, or the first access outside the vector (the
\* condition j >= 0 is always true for a size_t, and 0 - 1 wraps).
RECURSIVE ScanBackward(_, _, _)
ScanBackward(d, f, from) ==
    IF from \notin DOMAIN d THEN from
    ELSE IF Valid(d[from][f]) THEN from
    ELSE ScanBackward(d, f, SizeSub(from, 1))

\* One first-row block (e.g. 327-334) on a vector with a record 0.
FirstRowFillLastValid(d, f) ==
    IF Valid(d[0][f]) THEN d
    ELSE LET S == {i \in DOMAIN d : i >= 1 /\ Valid(d[i][f])}
         IN  IF S = {} THEN d
             ELSE [d EXCEPT ![0][f] = d[CHOOSE i \in S : \A k \in S : k <= i][f]]

FirstRowFill(d, f) ==
    IF Valid(d[0][f]) THEN d
    ELSE LET i == ScanForward(d, f, 1)
         IN  IF i < Size(d) THEN [d EXCEPT ![0][f] = d[i][f]] ELSE d

\* Lines 384-386: the vectors that may result from the fill of record i
\* with anchors lo and hi (to_string decides between them).
InteriorFillFromOriginal(d, f, i, lo, hi) ==
    LET S   == {j \in DOMAIN datos0 : j < i /\ Valid(datos0[j][f])}
        lo0 == IF S = {} THEN lo
               ELSE Parsed(datos0[CHOOSE j \in S : \A k \in S : k <= j][f])
    IN  IF lo0 # MinusOne /\ hi # MinusOne
        THEN {[d EXCEPT ![i][f] = s] : s \in ToStrings((lo0 + hi) \div 2)}
        ELSE {d}

InteriorFill(d, f, i, lo, hi) ==
    IF lo # MinusOne /\ hi # MinusOne
    THEN {[d EXCEPT ![i][f] = s] : s \in ToStrings((lo + hi) \div 2)}
    ELSE {d}

\* punta_superior after the loop of lines 377-382.
UpperAnchor(d, f, i) ==
    LET z == ScanForward(d, f, i)
    IN  IF z < Size(d) THEN Parsed(d[z][f]) ELSE MinusOne

\* The body of one interior iteration (e.g. 366-389) treats record i.
InteriorTreatsAlways(d, f, i) == TRUE

InteriorTreats(d, f, i) == ~Valid(d[i][f])

\* The step of the program that reads or writes outside the vector.
FirstReadsOutside == pc = "first" /\ Size(datos) = 0
InteriorInLoop == pc = "interior" /\ idx < SizeSub(Size(datos), 1)
InteriorReadsOutside ==
    /\ InteriorInLoop
    /\ IF idx \in DOMAIN datos
       THEN /\ InteriorTreats(datos, FirstOrder[fld], idx)
            /\ ScanBackward(datos, FirstOrder[fld], idx) \notin DOMAIN datos
       ELSE TRUE

NextBlock(phase, after) ==
    IF fld < Len(FirstOrder)
    THEN pc' = phase /\ fld' = fld + 1 /\ idx' = 1
    ELSE pc' = after /\ fld' = 1 /\ idx' = 1

\* Lines 327-361, one block per step.  On an empty vector data[0] is read
\* outside the vector; when that read returns, its loop does not run.
FirstRow ==
    /\ pc = "first"
    /\ IF Size(datos) = 0
       THEN datos' = datos /\ oob' = TRUE
       ELSE datos' = FirstRowFill(datos, FirstOrder[fld]) /\ oob' = oob
    /\ NextBlock("first", "interior")
    /\ UNCHANGED <<datos0, beyond, dataframe, bis, fechas>>

\* One iteration of an interior loop (365-471) whose scans stay inside, or
\* whose backward scan left the vector and found a parsable string there.
InteriorRow ==
    /\ InteriorInLoop
    /\ idx \in DOMAIN datos
    /\ LET f == FirstOrder[fld]
           j == ScanBackward(datos, f, idx)
       IN  IF ~InteriorTreats(datos, f, idx)
           THEN datos' = datos /\ oob' = oob
           ELSE \E g \in GarbageStrings :
                  LET lo == IF j \in DOMAIN datos THEN Parsed(datos[j][f])
                            ELSE Parsed(g)
                  IN  /\ datos' \in InteriorFill(datos, f, idx, lo,
                                                 UpperAnchor(datos, f, idx))
                      /\ oob' = (oob \/ j \notin DOMAIN datos)
    /\ idx' = idx + 1
    /\ UNCHANGED <<datos0, beyond, pc, fld, dataframe, bis, fechas>>

\* The loop condition i < data.size() - 1 is false: next loop, or the
\* last-row blocks.
InteriorEnd ==
    /\ pc = "interior"
    /\ ~(idx < SizeSub(Size(datos), 1))
    /\ NextBlock("interior", "last")
    /\ UNCHANGED <<datos, datos0, beyond, oob, dataframe, bis, fechas>>

\* Nothing was stored at index data.size() by the block that just ran.
NoStore == <<>>

\* One last-row block (e.g. 475-482).  data[data.size()] is read: it is not
\* a record of the vector.  If the string there parses the block is done;
\* otherwise the scan starts at that same index, goes down, and the value
\* found is stored at index data.size().
LastRow ==
    /\ pc = "last"
    /\ oob' = TRUE
    /\ LET f == LastOrder[fld]
           j == IF Size(datos) = 0 THEN SizeSub(0, 1)
                ELSE ScanBackward(datos, f, Size(datos) - 1)
       IN  \/ beyond' = NoStore
           \/ /\ j \in DOMAIN datos
              /\ beyond' = <<f, datos[j][f]>>
           \/ /\ j \notin DOMAIN datos
              /\ \E g \in GarbageStrings : beyond' = <<f, g>>
    /\ NextBlock("last", "returned")
    /\ UNCHANGED <<datos, datos0, dataframe, bis, fechas>>

\* An access outside the vector faults: line 327 on an empty vector, a
\* backward scan that passed index 0, the interior loop of an empty vector
\* (its bound wrapped), and every last-row block.
Fault ==
    /\ FirstReadsOutside \/ InteriorReadsOutside \/ pc = "last"
    /\ pc' = "crashed"
    /\ oob' = TRUE
    /\ beyond' = NoStore
    /\ UNCHANGED <<datos, datos0, fld, idx, dataframe, bis, fechas>>

NextInterp == FirstRow \/ InteriorRow \/ InteriorEnd \/ LastRow \/ Fault

\* Field values of the input file.
Values ==
    { <<>>,
      <<"5", "x">>,
      <<"5">>,
      <<"7", ",", "5">>,
      <<"-", "1">>,
      <<"0", ".", "0", "0", "0", "0", "0", "1">> }

Stamp == <<"1", "0", "/", "1", "8", "/", "2", "0", "2", "3", " ",
           "1", "2", ":", "1", "8">>

\* The records built by lines 596-607 from one column of values: each field
\* reads the column from its own offset, so that the fields of a record
\* differ.
Records(n, col) ==
    [i \in 0..(n - 1) |->
        [ask        |-> col[i],
         bid        |-> col[(i + 1) % n],
         underBid   |-> col[(i + 2) % n],
         underAsk   |-> col[(i + 3) % n],
         created_at |-> Stamp]]

\* A function of the program that is not running.
Idle == [state |-> "idle"]

InitInterp ==
    /\ \E n \in 0..MaxLen : \E col \in [0..(n - 1) -> Values] :
          datos = Records(n, col)
    /\ datos0 = datos
    /\ beyond = NoStore
    /\ pc = "first"
    /\ fld = 1
    /\ idx = 1
    /\ oob = FALSE
    /\ dataframe = <<>>
    /\ bis = Idle
    /\ fechas = Idle

SpecInterp == InitInterp /\ [][NextInterp]_vars


----------------------------------------------------------------------------
(* cdf, calculate_d1, blackScholesCall, main.cpp 28-53 *)

\* The doubles of the pricer are fixed-point numbers: integers counting
\* thousandths, every product and quotient truncated to a thousandth.
SC == 1000

Abs(x) == IF x < 0 THEN -x ELSE x
Mul(x, y) == (x * y) \div SC
Div(x, y) == (x * SC) \div y

\* std::sqrt of a non-negative fixed-point number: the largest r with
\* r * r <= x, found by bisection on lo <= r < hi.
RECURSIVE SqrtBetween(_, _, _)
SqrtBetween(n, lo, hi) ==
    IF hi - lo <= 1 THEN lo
    ELSE LET mid == (lo + hi) \div 2
         IN  IF mid * mid <= n THEN SqrtBetween(n, mid, hi)
             ELSE SqrtBetween(n, lo, mid)

Sqrt(x) == SqrtBetween(x * SC, 0, 2 ^ 15)

\* ln 2 in thousandths.
Ln2 == 693

\* std::log of a positive fixed-point number: the argument is brought into
\* [1, 2) by doubling or halving, then ln m = 2 atanh((m - 1) / (m + 1)) by
\* its series to the fifth power.
RECURSIVE Log(_)
Log(x) ==
    IF x < SC THEN Log(2 * x) - Ln2
    ELSE IF x >= 2 * SC THEN Log(x \div 2) + Ln2
    ELSE LET z  == Div(x - SC, x + SC)
             z3 == Mul(Mul(z, z), z)
             z5 == Mul(Mul(z3, z), z)
         IN  2 * (z + z3 \div 3 + z5 \div 5)

\* std::exp of a fixed-point number <= 0: the argument is halved until it is
\* above -1/2, then the series to the fourth power, then squared back.
RECURSIVE Exp(_)
Exp(x) ==
    IF x < -(SC \div 2)
    THEN LET h == Exp(-((-x) \div 2)) IN Mul(h, h)
    ELSE LET y  == -x
             y2 == Mul(y, y)
             y3 == Mul(y2, y)
             y4 == Mul(y3, y)
         IN  SC - y + y2 \div 2 - y3 \div 6 + y4 \div 24

\* std::erf: 1 - 1/(1 + a1 x + a2 x^2 + a3 x^3 + a4 x^4)^4 for x >= 0
\* (Abramowitz and Stegun 7.1.27, error below 5 * 10^-4), odd in x, and 1
\* from x = 4 on.
Erf(x) ==
    LET a  == Abs(x)
        a2 == Mul(a, a)
        q  == SC + (278 * a + 230 * a2 + Mul(a2, a) + 78 * Mul(a2, a2)) \div SC
        i2 == Mul(Div(SC, q), Div(SC, q))
        e  == IF a >= 4 * SC THEN SC ELSE SC - Mul(i2, i2)
    IN  IF x < 0 THEN -e ELSE e

\* Line 29.  From |x| = 6 on, x / sqrt(2) is above 4 and erf is 1.
cdf(x) ==
    IF x >= 6 * SC THEN SC
    ELSE IF x <= -(6 * SC) THEN 0
    ELSE (SC + Erf(Div(x, Sqrt(2 * SC)))) \div 2

\* Line 33, for S > 0, K > 0, sigma > 0 and T > 0.  A ratio S / K or a
\* divisor that truncates to no thousandth counts as one thousandth.
calculate_d1(S, K, T, r, sigma) ==
    LET ratio == Div(S, K)
        den   == Mul(sigma, Sqrt(T))
    IN  Div(Log(IF ratio = 0 THEN 1 ELSE ratio)
                + Mul(r + Mul(sigma, sigma) \div 2, T),
            IF den = 0 THEN 1 ELSE den)

\* Lines 46-53.
blackScholesCall(S, K, T, r, sigma) ==
    LET d1 == calculate_d1(S, K, T, r, sigma)
        d2 == d1 - Mul(sigma, Sqrt(T))
    IN  Mul(S, cdf(d1)) - Mul(Mul(K, Exp(-Mul(r, T))), cdf(d2))

----------------------------------------------------------------------------
(* findImpliedVolatility, main.cpp 75-95 *)

\* Most iterations a call of the model is given.
MaxIter == 6

\* Line 80.
Midpoint(a, b) == (a + b) \div 2

\* Line 84: fabs(precio_teorico - optionPrice) < tolerance.
WithinToleranceOrEqual(precio_teorico, optionPrice, tolerance) ==
    Abs(precio_teorico - optionPrice) <= tolerance

WithinTolerance(precio_teorico, optionPrice, tolerance) ==
    Abs(precio_teorico - optionPrice) < tolerance

\* Line 88: the branch that assigns a = p.
RaisesLowWhenBelow(optionPrice, precio_teorico) == optionPrice < precio_teorico

RaisesLowOnTie(optionPrice, precio_teorico) == optionPrice >= precio_teorico

RaisesLow(optionPrice, precio_teorico) == optionPrice > precio_teorico

\* The double -1 of line 94.
NoConvergence == -SC

\* p and precio_teorico of the iteration about to run (lines 80 and 82).
BisP == Midpoint(bis.a, bis.b)
BisPrecio == blackScholesCall(bis.S, bis.K, bis.T, bis.r, BisP)
BisInLoop == bis.state = "loop" /\ bis.i < bis.maxIterations

\* Lines 84-86: the early return.
IterReturn ==
    /\ BisInLoop
    /\ WithinTolerance(BisPrecio, bis.optionPrice, bis.tolerance)
    /\ bis' = [bis EXCEPT !.state = "returned", !.ret = BisP,
                          !.mids = Append(@, BisP)]
    /\ UNCHANGED <<datos, datos0, beyond, pc, fld, idx, oob, dataframe, fechas>>

\* Lines 88-89, then ++i.
IterRaiseLow ==
    /\ BisInLoop
    /\ ~WithinTolerance(BisPrecio, bis.optionPrice, bis.tolerance)
    /\ RaisesLow(bis.optionPrice, BisPrecio)
    /\ bis' = [bis EXCEPT !.a = BisP, !.i = @ + 1, !.mids = Append(@, BisP)]
    /\ UNCHANGED <<datos, datos0, beyond, pc, fld, idx, oob, dataframe, fechas>>

\* Lines 90-91, then ++i.
IterLowerHigh ==
    /\ BisInLoop
    /\ ~WithinTolerance(BisPrecio, bis.optionPrice, bis.tolerance)
    /\ ~RaisesLow(bis.optionPrice, BisPrecio)
    /\ bis' = [bis EXCEPT !.b = BisP, !.i = @ + 1, !.mids = Append(@, BisP)]
    /\ UNCHANGED <<datos, datos0, beyond, pc, fld, idx, oob, dataframe, fechas>>

\* Line 94: the loop condition i < maxIterations is false.
LoopExit ==
    /\ bis.state = "loop"
    /\ ~(bis.i < bis.maxIterations)
    /\ bis' = [bis EXCEPT !.state = "returned", !.ret = NoConvergence]
    /\ UNCHANGED <<datos, datos0, beyond, pc, fld, idx, oob, dataframe, fechas>>

NextBisection == IterReturn \/ IterRaiseLow \/ IterLowerHigh \/ LoopExit

\* Arguments of the calls of the model, in thousandths: S, K, T, r.  The
\* third prices a call so deep in the money that its price does not move
\* with the volatility.
Markets ==
    { <<100000, 100000, 1000, 0>>,
      <<100000, 110000, 250, 50>>,
      <<100000, 1000, 250, 50>> }

\* Volatilities are multiples of an eighth.
VolStep == SC \div 8
VolGrid == {k * VolStep : k \in 1..40}

\* Search brackets a, b: their widths are 32 and 16 eighths.
Brackets == {<<125, 4125>>, <<1125, 3125>>}

Tolerances == {0, 1, 2000}

\* The call of line 75 with its parameters; low, high and vol0 keep the
\* bracket at entry and the volatility the market price was computed from,
\* mids lists the midpoints priced so far.
InitBisection ==
    /\ \E m \in Markets, br \in Brackets, vol0 \in VolGrid,
          tol \in Tolerances, n \in {0, 2, MaxIter},
          quote \in {"priced", "zero", "high"} :
          bis = [state |-> "loop", S |-> m[1], K |-> m[2], T |-> m[3], r |-> m[4],
                 optionPrice |->
                     CASE quote = "priced" ->
                            blackScholesCall(m[1], m[2], m[3], m[4], vol0)
                       [] quote = "zero" -> 0
                       [] quote = "high" -> 2 * m[1],
                 a |-> br[1], b |-> br[2], tolerance |-> tol,
                 maxIterations |-> n, i |-> 0, ret |-> 0,
                 low |-> br[1], high |-> br[2], vol0 |-> vol0, mids |-> <<>>]
    /\ datos = <<>>
    /\ datos0 = <<>>
    /\ beyond = NoStore
    /\ pc = "bisection"
    /\ fld = 1
    /\ idx = 1
    /\ oob = FALSE
    /\ dataframe = <<>>
    /\ fechas = Idle

SpecBisection == InitBisection /\ [][NextBisection]_vars

----------------------------------------------------------------------------
(* isValidFormatDate, isValidFormatExpirationDate, obtenerDiferenciaEnAnios,
   main.cpp 159-255 *)

AllDigits(s) == \A k \in 1..Len(s) : s[k] \in Digits
Number(s) == DigitsValue(s, 1, Len(s))

\* The pieces of s between the occurrences of the character sep.
RECURSIVE Split(_, _)
Split(s, sep) ==
    IF \A k \in 1..Len(s) : s[k] # sep THEN <<s>>
    ELSE LET k == CHOOSE k \in 1..Len(s) :
                      s[k] = sep /\ \A h \in 1..(k - 1) : s[h] # sep
         IN  <<SubSeq(s, 1, k - 1)>> \o Split(SubSeq(s, k + 1, Len(s)), sep)

\* A digit string of one or two digits whose value lies in lo .. hi, the
\* shape of the alternatives 0?[1-9]|1[0-2] and the like.
OneOrTwoDigits(s, lo, hi) ==
    /\ Len(s) \in {1, 2}
    /\ AllDigits(s)
    /\ Number(s) >= lo /\ Number(s) <= hi

\* The regular expression of line 161.
IsValidFormatDate(date) ==
    LET halves == Split(date, " ")
        dmy    == Split(halves[1], "/")
        hm     == Split(halves[2], ":")
    IN  /\ Len(halves) = 2
        /\ Len(dmy) = 3
        /\ Len(hm) = 2
        /\ OneOrTwoDigits(dmy[1], 1, 12)
        /\ OneOrTwoDigits(dmy[2], 1, 31)
        /\ Len(dmy[3]) = 4 /\ AllDigits(dmy[3])
        /\ dmy[3][1] = "2" /\ dmy[3][2] = "0"
        /\ OneOrTwoDigits(hm[1], 0, 23)
        /\ Len(hm[2]) = 2 /\ AllDigits(hm[2]) /\ Number(hm[2]) <= 59

\* The regular expression of line 193: \d{2}/\d{2}/\d{4}.
IsValidFormatExpirationDate(date) ==
    /\ Len(date) = 10
    /\ date[3] = "/" /\ date[6] = "/"
    /\ AllDigits(SubSeq(date, 1, 2))
    /\ AllDigits(SubSeq(date, 4, 5))
    /\ AllDigits(SubSeq(date, 7, 10))

\* std::tm tm = {}.
TmZero == [tm_year |-> 1900, tm_mon |-> 1, tm_mday |-> 0, tm_hour |-> 0, tm_min |-> 0]

\* Lines 231-234 on a string that passed isValidFormatDate: the month, the
\* day and the year, then the hour and the minute.  The second get_time
\* fails at the seconds the string does not have, after it has stored the
\* hour and the minute.
ParseObserved(fecha1_str) ==
    LET halves == Split(fecha1_str, " ")
        dmy    == Split(halves[1], "/")
        hm     == Split(halves[2], ":")
    IN  [tm_year |-> Number(dmy[3]), tm_mon |-> Number(dmy[1]),
         tm_mday |-> Number(dmy[2]),
         tm_hour |-> Number(hm[1]), tm_min |-> Number(hm[2])]

\* Line 237 on a string that passed isValidFormatExpirationDate: %d, %m and
\* %Y in turn; a field out of its range stops the parse and leaves the rest
\* of tm2 at zero.  The time of day is not in the string.
ParseExpiration(fecha2_str) ==
    LET d == Number(SubSeq(fecha2_str, 1, 2))
        m == Number(SubSeq(fecha2_str, 4, 5))
        y == Number(SubSeq(fecha2_str, 7, 10))
    IN  IF d < 1 \/ d > 31 THEN TmZero
        ELSE IF m < 1 \/ m > 12 THEN [TmZero EXCEPT !.tm_mday = d]
        ELSE [TmZero EXCEPT !.tm_mday = d, !.tm_mon = m, !.tm_year = y]

\* std::mktime, in minutes (no string of the model has seconds), on the
\* proleptic Gregorian calendar, without time zone or daylight saving: both
\* tm have tm_isdst = 0.  A day past the end of its month runs on into the
\* next one, as mktime normalises it.
IsLeap(y) == (y % 4 = 0 /\ y % 100 # 0) \/ y % 400 = 0

DaysBeforeMonth(y, m) ==
    <<0, 31, 59, 90, 120, 151, 181, 212, 243, 273, 304, 334>>[m]
    + (IF m > 2 /\ IsLeap(y) THEN 1 ELSE 0)

DaysBeforeYear(y) ==
    365 * (y - 1) + (y - 1) \div 4 - (y - 1) \div 100 + (y - 1) \div 400

MinutesPerDay == 24 * 60

Mktime(tm) ==
    (DaysBeforeYear(tm.tm_year) + DaysBeforeMonth(tm.tm_year, tm.tm_mon)
        + tm.tm_mday - 1) * MinutesPerDay
    + tm.tm_hour * 60 + tm.tm_min

\* Line 243: the test that rejects the pair of instants.
ExpiresAtOrBefore(time2, time1) == time2 <= time1

ExpiresBefore(time2, time1) == time2 < time1

\* Lines 251-252: minutes over the minutes of a 365-day year, in
\* half-micros (2 * 10^6 / 525600 = 12500 / 3285).
YearsBetween(time1, time2) ==
    LET minutes == time2 - time1
    IN  (minutes \div 3285) * 12500 + ((minutes % 3285) * 12500) \div 3285

\* Line 222-224.
RejectObserved ==
    /\ fechas.state = "called"
    /\ ~IsValidFormatDate(fechas.fecha1_str)
    /\ fechas' = [fechas EXCEPT !.state = "returned", !.ret = MinusOne]
    /\ UNCHANGED <<datos, datos0, beyond, pc, fld, idx, oob, dataframe, bis>>

\* Lines 226-228.
RejectExpiration ==
    /\ fechas.state = "called"
    /\ IsValidFormatDate(fechas.fecha1_str)
    /\ ~IsValidFormatExpirationDate(fechas.fecha2_str)
    /\ fechas' = [fechas EXCEPT !.state = "returned", !.ret = MinusOne]
    /\ UNCHANGED <<datos, datos0, beyond, pc, fld, idx, oob, dataframe, bis>>

\* Lines 231-241.
ParseDates ==
    /\ fechas.state = "called"
    /\ IsValidFormatDate(fechas.fecha1_str)
    /\ IsValidFormatExpirationDate(fechas.fecha2_str)
    /\ fechas' = [fechas EXCEPT
                     !.state = "parsed",
                     !.time1 = Mktime(ParseObserved(fechas.fecha1_str)),
                     !.time2 = Mktime(ParseExpiration(fechas.fecha2_str))]
    /\ UNCHANGED <<datos, datos0, beyond, pc, fld, idx, oob, dataframe, bis>>

\* Lines 243-248.
RejectOrder ==
    /\ fechas.state = "parsed"
    /\ ExpiresBefore(fechas.time2, fechas.time1)
    /\ fechas' = [fechas EXCEPT !.state = "returned", !.ret = MinusOne]
    /\ UNCHANGED <<datos, datos0, beyond, pc, fld, idx, oob, dataframe, bis>>

\* Lines 251-254.
ReturnYears ==
    /\ fechas.state = "parsed"
    /\ ~ExpiresBefore(fechas.time2, fechas.time1)
    /\ fechas' = [fechas EXCEPT
                     !.state = "returned",
                     !.ret = YearsBetween(fechas.time1, fechas.time2)]
    /\ UNCHANGED <<datos, datos0, beyond, pc, fld, idx, oob, dataframe, bis>>

NextFechas ==
    RejectObserved \/ RejectExpiration \/ ParseDates \/ RejectOrder \/ ReturnYears

\* First arguments of the calls of the model.
ObservedDates ==
    { <<"1", "0", "/", "1", "8", "/", "2", "0", "2", "3", " ", "1", "2", ":", "1", "8">>,
      <<"1", "0", "/", "1", "9", "/", "2", "0", "2", "3", " ", "2", "3", ":", "5", "9">>,
      <<"1", "0", "/", "2", "0", "/", "2", "0", "2", "3", " ", "0", ":", "0", "0">>,
      <<"1", "0", "/", "2", "0", "/", "2", "0", "2", "3", " ", "0", "0", ":", "0", "0">>,
      <<"1", "0", "/", "2", "0", "/", "2", "0", "2", "3", " ", "0", ":", "0", "1">>,
      <<"1", "0", "/", "2", "1", "/", "2", "0", "2", "3", " ", "9", ":", "3", "0">>,
      <<"9", "/", "5", "/", "2", "0", "2", "3", " ", "7", ":", "0", "5">>,
      <<"2", "/", "3", "1", "/", "2", "0", "2", "3", " ", "5", ":", "0", "7">>,
      <<"1", "3", "/", "1", "8", "/", "2", "0", "2", "3", " ", "1", "2", ":", "1", "8">>,
      <<"1", "0", "/", "1", "8", "/", "2", "0", "2", "3", " ", "2", "4", ":", "0", "0">>,
      <<"1", "0", "/", "1", "8", "/", "2", "0", "2", "3", " ", "1", "2", ":", "1", "8", ":", "0", "0">>,
      <<"1", "0", "-", "1", "8", "-", "2", "0", "2", "3", " ", "1", "2", ":", "1", "8">>,
      <<"1", "8", "/", "1", "0", "/", "2", "0", "2", "3", " ", "1", "2", ":", "1", "8">>,
      <<>> }

\* Second arguments of the calls of the model; main passes the first.
ExpirationDates ==
    { <<"2", "0", "/", "1", "0", "/", "2", "0", "2", "3">>,
      <<"1", "8", "/", "1", "0", "/", "2", "0", "2", "3">>,
      <<"0", "5", "/", "0", "9", "/", "2", "0", "2", "3">>,
      <<"2", "0", "/", "1", "0", "/", "2", "3">>,
      <<"2", "0", "2", "3", "-", "1", "0", "-", "2", "0">>,
      <<"9", "9", "/", "9", "9", "/", "2", "0", "2", "3">>,
      <<"3", "1", "/", "1", "3", "/", "2", "0", "2", "3">> }

\* The call of line 211.
Called(fecha1_str, fecha2_str) ==
    [state |-> "called", fecha1_str |-> fecha1_str, fecha2_str |-> fecha2_str,
     time1 |-> 0, time2 |-> 0, ret |-> 0]

InitFechas ==
    /\ \E f1 \in ObservedDates, f2 \in ExpirationDates : fechas = Called(f1, f2)
    /\ datos = <<>>
    /\ datos0 = <<>>
    /\ beyond = NoStore
    /\ pc = "fechas"
    /\ fld = 1
    /\ idx = 1
    /\ oob = FALSE
    /\ dataframe = <<>>
    /\ bis = Idle

SpecFechas == InitFechas /\ [][NextFechas]_vars

----------------------------------------------------------------------------
(* main, main.cpp 533-684: the records after replaceMissingValues *)

\* The function of lines 211-255 as main calls it: the result of the
\* actions above, in half-micros.
obtenerDiferenciaEnAnios(fecha1_str, fecha2_str) ==
    IF ~IsValidFormatDate(fecha1_str) THEN MinusOne
    ELSE IF ~IsValidFormatExpirationDate(fecha2_str) THEN MinusOne
    ELSE LET time1 == Mktime(ParseObserved(fecha1_str))
             time2 == Mktime(ParseExpiration(fecha2_str))
         IN  IF ExpiresBefore(time2, time1) THEN MinusOne
             ELSE YearsBetween(time1, time2)

\* One iteration of the loop of lines 79-93 on the locals of the function;
\* after the return of line 85 there is none.  An iteration whose midpoint
\* is the p of the iteration before it assigns what that one assigned.
Iteration(S, K, T, r, optionPrice, tolerance, loc) ==
    IF loc.returned \/ (loc.entered /\ Midpoint(loc.a, loc.b) = loc.p) THEN loc
    ELSE LET p == Midpoint(loc.a, loc.b)
             precio_teorico == blackScholesCall(S, K, T, r, p)
         IN  IF WithinTolerance(precio_teorico, optionPrice, tolerance)
             THEN [loc EXCEPT !.returned = TRUE, !.p = p]
             ELSE IF RaisesLow(optionPrice, precio_teorico)
                  THEN [loc EXCEPT !.a = p, !.p = p, !.entered = TRUE]
                  ELSE [loc EXCEPT !.b = p, !.p = p, !.entered = TRUE]

\* n iterations in a row, split in halves to keep the evaluation shallow:
\* the locals after the first half are a value before the second starts.
RECURSIVE Iterations(_, _, _, _, _, _, _, _)
Iterations(S, K, T, r, optionPrice, tolerance, loc, n) ==
    IF n <= 0 THEN loc
    ELSE IF n = 1 THEN Iteration(S, K, T, r, optionPrice, tolerance, loc)
    ELSE CHOOSE after \in
             { Iterations(S, K, T, r, optionPrice, tolerance, half,
                          n - n \div 2) :
                 half \in { Iterations(S, K, T, r, optionPrice, tolerance,
                                       loc, n \div 2) } } : TRUE

\* Lines 75-95 run to their return.
findImpliedVolatility(S, K, T, r, optionPrice, a, b, tolerance, maxIterations) ==
    LET loc == Iterations(S, K, T, r, optionPrice, tolerance,
                          [a |-> a, b |-> b, p |-> 0, entered |-> FALSE,
                           returned |-> FALSE],
                          maxIterations)
    IN  IF loc.returned THEN loc.p ELSE NoConvergence

\* A double of main (half-micros) as a double of the pricer (thousandths).
ToPricer(x) == x \div (One \div SC)

\* Lines 541, 544, 549, 556, 557 and the literals of lines 661-663, in
\* thousandths.  0.00001 is below a thousandth: as a tolerance it is the
\* smallest positive one, as the low end of the bracket it is 0.
rf_continua == Ln2
strike == 1033 * SC
fecha_vencimiento == <<"2", "0", "/", "1", "0", "/", "2", "0", "2", "3">>
tolerance == 1
max_iterations == 500
LowVol == ToPricer(One \div 100000)
HighVol == 5 * SC

\* OptionData opcion (line 624) has no initialiser: price, under_price and
\* expiration hold whatever the stack holds until they are assigned.  That
\* is the value the previous iteration left there, or any other double; 0
\* and 1 stand for the others.
Indeterminate(member) ==
    {0, One} \cup (IF dataframe = <<>> THEN {}
                   ELSE {dataframe[Len(dataframe)][member]})

\* Lines 657-659.
Guard(opcion) ==
    opcion.expiration > 0 /\ opcion.price > 0 /\ opcion.under_price > 0

\* One iteration of the loop of lines 622-679, on record Len(dataframe).
\* The members that neither the guard nor the solver reads (under_volatility,
\* intrinsic_value, extrinsic_value and the constants) are left out;
\* implied_volatility is in thousandths, the other doubles in half-micros.
MainRecord ==
    /\ pc = "returned"
    /\ Len(dataframe) < Size(datos)
    /\ LET d    == datos[Len(dataframe)]
           bid  == IsValidDouble(d.bid, MinusOne)
           ask  == IF bid.ok THEN IsValidDouble(d.ask, MinusOne)
                   ELSE [ok |-> FALSE, result |-> MinusOne]
           ubid == IsValidDouble(d.underBid, MinusOne)
           uask == IF ubid.ok THEN IsValidDouble(d.underAsk, MinusOne)
                   ELSE [ok |-> FALSE, result |-> MinusOne]
       IN  \E expiration \in
                  IF d.created_at # <<>>
                  THEN {obtenerDiferenciaEnAnios(d.created_at, fecha_vencimiento)}
                  ELSE Indeterminate("expiration"),
              price \in
                  IF bid.ok /\ ask.ok
                  THEN {(bid.result + ask.result) \div 2}
                  ELSE Indeterminate("price"),
              under_price \in
                  IF ubid.ok /\ uask.ok
                  THEN {(uask.result + ubid.result) \div 2}
                  ELSE Indeterminate("under_price") :
             LET opcion == [expiration |-> expiration, price |-> price,
                            under_price |-> under_price]
                 implied_volatility ==
                    IF Guard(opcion)
                    THEN findImpliedVolatility(
                             ToPricer(opcion.under_price), strike,
                             ToPricer(opcion.expiration), rf_continua,
                             ToPricer(opcion.price), LowVol, HighVol,
                             tolerance, max_iterations)
                    ELSE NoConvergence
             IN  dataframe' = Append(dataframe,
                     [bid        |-> bid.result,
                      ask        |-> ask.result,
                      under_bid  |-> ubid.result,
                      under_ask  |-> uask.result,
                      created_at |-> d.created_at,
                      expiration |-> opcion.expiration,
                      price      |-> opcion.price,
                      under_price |-> opcion.under_price,
                      implied_volatility |-> implied_volatility])
    /\ UNCHANGED <<datos, datos0, beyond, pc, fld, idx, oob, bis, fechas>>

\* The loop is over: saveFile (line 681) and the return.
MainSave ==
    /\ pc = "returned"
    /\ Len(dataframe) = Size(datos)
    /\ pc' = "saved"
    /\ UNCHANGED <<datos, datos0, beyond, fld, idx, oob, dataframe, bis, fechas>>

NextMain == NextInterp \/ MainRecord \/ MainSave

MainLen == 3

StampJanuary == <<"1", "/", "1", "8", "/", "2", "0", "2", "3", " ", "1", "2", ":", "1", "8">>

Quote(bid, ask, underBid, underAsk, created_at) ==
    [ask |-> ask, bid |-> bid, underBid |-> underBid, underAsk |-> underAsk,
     created_at |-> created_at]

\* Lines of the input file: a full quote, the same with the bid, with the
\* underlying bid or with the time missing, and a line of separators.
Quotes ==
    LET bid      == <<"3", "6", "4", ".", "2", "4", "4">>
        ask      == <<"3", "6", "4", ".", "4", "4", "4">>
        underBid == <<"5", "2", "0">>
        underAsk == <<"5", "2", "2">>
    IN  { Quote(bid, ask, underBid, underAsk, StampJanuary),
          Quote(<<>>, ask, underBid, underAsk, StampJanuary),
          Quote(bid, ask, <<>>, underAsk, StampJanuary),
          Quote(bid, ask, underBid, underAsk, <<>>),
          Quote(<<>>, <<>>, <<>>, <<>>, <<>>) }

InitMain ==
    /\ \E n \in 0..MainLen : datos \in [0..(n - 1) -> Quotes]
    /\ datos0 = datos
    /\ beyond = NoStore
    /\ pc = "first"
    /\ fld = 1
    /\ idx = 1
    /\ oob = FALSE
    /\ dataframe = <<>>
    /\ bis = Idle
    /\ fechas = Idle

SpecMain == InitMain /\ [][NextMain]_vars

----------------------------------------------------------------------------
(* Claims about replaceMissingValues *)

\* replaceMissingValues has returned to its caller.
AfterCall == pc \notin {"first", "interior", "last", "crashed"}

ValidBelow(d, f, i) == {j \in DOMAIN d : j < i /\ Valid(d[j][f])}
ValidAbove(d, f, i) == {z \in DOMAIN d : z > i /\ Valid(d[z][f])}
Highest(S) == CHOOSE j \in S : \A k \in S : k <= j
Lowest(S) == CHOOSE j \in S : \A k \in S : j <= k

\* An interior loop is about to treat record idx, whose value is missing.
InteriorMissing ==
    /\ InteriorInLoop
    /\ idx \in DOMAIN datos
    /\ ~Valid(datos[idx][FirstOrder[fld]])

\* C1: when an interior loop reaches a missing value that has a valid value
\* at some lower index and at some higher index, the iteration leaves at that
\* index a valid value equal to the arithmetic mean of the nearest valid
\* value below and the nearest valid value above.
C1_InteriorMean ==
    [][ LET f  == FirstOrder[fld]
            lo == ValidBelow(datos, f, idx)
            hi == ValidAbove(datos, f, idx)
        IN  (InteriorMissing /\ lo # {} /\ hi # {})
            => /\ Valid(datos'[idx][f])
               /\ 2 * Parsed(datos'[idx][f])
                    = Parsed(datos[Highest(lo)][f]) + Parsed(datos[Lowest(hi)][f])
      ]_vars

\* C2: after the call, a last record whose value was missing holds the
\* nearest valid value below it.
C2_LastRowFilled ==
    AfterCall =>
        \A f \in Fields :
            LET last == Size(datos0) - 1
                S    == ValidBelow(datos, f, last)
            IN  (Size(datos0) >= 2 /\ ~Valid(datos0[last][f]) /\ S # {})
                => datos[last][f] = datos[Highest(S)][f]

\* C3: no access of replaceMissingValues uses an index outside 0 .. size-1.
C3_NeverOutside == oob = FALSE

\* C4: after the call, a first record whose value was missing holds the
\* valid value of the same field with the smallest index >= 1, if there is
\* one.
C4_FirstRowFilled ==
    AfterCall =>
        \A f \in Fields :
            LET S == IF Size(datos0) = 0 THEN {} ELSE ValidAbove(datos0, f, 0)
            IN  (S # {} /\ ~Valid(datos0[0][f]))
                => datos[0][f] = datos0[Lowest(S)][f]

\* A first-row fill took place, from a record other than the last valid
\* one, and another field of record 0 holds a different string.
C4_Witness ==
    /\ AfterCall
    /\ Size(datos0) >= 3
    /\ \E f \in Fields :
          LET S == ValidAbove(datos0, f, 0)
          IN  /\ ~Valid(datos0[0][f])
              /\ Cardinality(S) >= 2
              /\ datos0[Lowest(S)][f] # datos0[Highest(S)][f]
              /\ datos[0][f] = datos0[Lowest(S)][f]
              /\ \E g \in Fields : Valid(datos0[0][g]) /\ datos0[0][g] # datos[0][f]

AllValid(d) == \A i \in DOMAIN d : \A f \in Fields : Valid(d[i][f])

\* C5: after a call on a vector whose four numeric fields are valid in every
\* record, the vector equals the vector before the call.
C5_NoOpOnValid == (AfterCall /\ AllValid(datos0)) => datos = datos0

\* A call on a fully valid vector with interior records has returned.
C5_Witness == AfterCall /\ AllValid(datos0) /\ Size(datos0) >= 3

\* C6: when an interior loop reaches a missing value that has no valid value
\* at any lower index, or none at any higher index, the iteration completes
\* without error and leaves the value as it is.
C6_UnresolvedUntouched ==
    [][ LET f == FirstOrder[fld]
        IN  (InteriorMissing
             /\ (ValidBelow(datos, f, idx) = {} \/ ValidAbove(datos, f, idx) = {}))
            => /\ pc' # "crashed"
               /\ datos'[idx][f] = datos[idx][f]
      ]_vars


\* Record i of field f is an interior record that was missing in the input
\* and has been filled.
InteriorFilled(f, i) ==
    /\ i \in DOMAIN datos
    /\ 0 < i /\ i < Size(datos) - 1
    /\ ~Valid(datos0[i][f])
    /\ Valid(datos[i][f])

\* The ask column of the input and of the vector.
AskColumn(d) == [i \in DOMAIN d |-> d[i].ask]

Missing == <<>>
RunOfTwo ==
    (0 :> <<"5">> @@ 1 :> Missing @@ 2 :> Missing @@ 3 :> <<"7", ",", "5">>)
RunOfTwoFilled ==
    (0 :> <<"5">>
     @@ 1 :> <<"6", ".", "2", "5", "0", "0", "0", "0">>
     @@ 2 :> <<"6", ".", "8", "7", "5", "0", "0", "0">>
     @@ 3 :> <<"7", ",", "5">>)

\* C12: the interior pass works in place and upwards: the interior record
\* an iteration has just filled holds the mean of the value now stored at
\* the nearest valid lower index, a value filled earlier in the pass
\* included, and of the original value at the nearest originally valid
\* higher index; so the fills of a run
\* of missing values are not all the mean of the original neighbours:
\* [5, missing, missing, 7.5] becomes [5, 6.25, 6.875, 7.5].
C12_InPlaceFill ==
    /\ (pc = "interior" /\ InteriorFilled(FirstOrder[fld], idx - 1)) =>
          LET f  == FirstOrder[fld]
              i  == idx - 1
              lo == ValidBelow(datos, f, i)
              hi == ValidAbove(datos0, f, i)
          IN  /\ lo # {}
              /\ hi # {}
              /\ datos[i][f] \in
                    ToStrings((Parsed(datos[Highest(lo)][f])
                               + Parsed(datos0[Lowest(hi)][f])) \div 2)
    /\ (AskColumn(datos0) = RunOfTwo /\ pc \in {"last", "returned"})
           => AskColumn(datos) = RunOfTwoFilled

\* The call has returned on the input [5, missing, missing, 7.5], whose
\* second fill is not the mean 6.25 of the original neighbours.
C12_Witness ==
    /\ pc = "returned"
    /\ AskColumn(datos0) = RunOfTwo
    /\ AskColumn(datos) = RunOfTwoFilled
    /\ InteriorFilled("ask", 1)
    /\ InteriorFilled("ask", 2)

----------------------------------------------------------------------------
(* Claims about findImpliedVolatility *)

BisRunning == bis.state \in {"loop", "returned"}

\* The theoretical price at volatility q misses the market price of the
\* running call by less than its tolerance.
Hits(q) ==
    Abs(blackScholesCall(bis.S, bis.K, bis.T, bis.r, q) - bis.optionPrice)
        < bis.tolerance

\* C7: a call prices at most maxIterations midpoints, and what it returns is
\* either the midpoint of the current bracket, the first midpoint whose
\* price is within the tolerance, or -1 after maxIterations midpoints none
\* of which was within the tolerance.
C7_TerminatesWithResult ==
    BisRunning =>
        LET n   == Len(bis.mids)
            max == IF bis.maxIterations < 0 THEN 0 ELSE bis.maxIterations
        IN  /\ n <= max
            /\ bis.state = "loop" => n = bis.i
            /\ bis.state = "returned" =>
                  \/ /\ n >= 1
                     /\ bis.ret = bis.mids[n]
                     /\ bis.ret = Midpoint(bis.a, bis.b)
                     /\ Hits(bis.ret)
                     /\ \A k \in 1..(n - 1) : ~Hits(bis.mids[k])
                  \/ /\ bis.ret = NoConvergence
                     /\ n = max
                     /\ \A k \in 1..n : ~Hits(bis.mids[k])

\* A call returned a midpoint after at least two midpoints that missed.
C7_Witness ==
    /\ BisRunning
    /\ bis.state = "returned"
    /\ Len(bis.mids) >= 3
    /\ bis.ret = bis.mids[Len(bis.mids)]
    /\ bis.ret # NoConvergence

\* The prices of every market of the model on the grid of volatilities.
PriceAt ==
    [m \in Markets |->
        [v \in VolGrid |-> blackScholesCall(m[1], m[2], m[3], m[4], v)]]

\* The price of the running call is strictly increasing in the volatility on
\* the grid points of its bracket.
PriceIncreasing ==
    LET price == PriceAt[<<bis.S, bis.K, bis.T, bis.r>>]
    IN  \A v \in VolGrid :
            (bis.low <= v /\ v + VolStep <= bis.high)
            => price[v] < price[v + VolStep]

\* Halvings that bring a bracket of w grid steps down to one step.
RECURSIVE Halvings(_)
Halvings(w) == IF w <= 1 THEN 0 ELSE 1 + Halvings(w \div 2)

\* The running call is a round trip: its market price is the price at a
\* volatility strictly inside its bracket, the price is strictly increasing,
\* the tolerance is positive and the iterations suffice to reach every grid
\* point of the bracket.
RoundTrip ==
    /\ BisRunning
    /\ bis.low < bis.vol0 /\ bis.vol0 < bis.high
    /\ bis.optionPrice
         = blackScholesCall(bis.S, bis.K, bis.T, bis.r, bis.vol0)
    /\ bis.tolerance > 0
    /\ PriceIncreasing
    /\ bis.maxIterations >= Halvings((bis.high - bis.low) \div VolStep)

\* C8: in a round trip the bracket contains the volatility at every
\* iteration, and the call returns not -1 but a volatility whose price is
\* within the tolerance of the market price.
C8_RoundTrip ==
    RoundTrip =>
        /\ bis.a <= bis.vol0 /\ bis.vol0 <= bis.b
        /\ bis.state = "returned" =>
              /\ bis.ret # NoConvergence
              /\ Hits(bis.ret)

\* A round trip returned after both ends of the bracket moved, with the
\* tightest positive tolerance.
C8_Witness ==
    /\ RoundTrip
    /\ bis.state = "returned"
    /\ bis.tolerance = 1
    /\ bis.a # bis.low
    /\ bis.b # bis.high
    /\ Len(bis.mids) >= 4


\* An iteration that did not exit early has just run: the step leaves the
\* call in its loop.
BisNarrowed == BisInLoop /\ bis'.state = "loop" /\ bis'.i = bis.i + 1

\* C11, as claimed: in an iteration that does not exit early, a market
\* price above the theoretical price at the midpoint p makes low p and
\* leaves high, a market price below it makes high p and leaves low, and a
\* market price equal to it makes low p and leaves high.
C11_TieRaisesLow ==
    [][BisNarrowed =>
          IF bis.optionPrice >= BisPrecio
          THEN bis'.a = BisP /\ bis'.b = bis.b
          ELSE bis'.b = BisP /\ bis'.a = bis.a]_vars

\* C11, amended: in an iteration that does not exit early, a market price
\* above the theoretical price at the midpoint p makes low p and leaves
\* high; otherwise, the tie included, high becomes p and low is left.
C11_TieLowersHigh ==
    [][BisNarrowed =>
          IF bis.optionPrice > BisPrecio
          THEN bis'.a = BisP /\ bis'.b = bis.b
          ELSE bis'.b = BisP /\ bis'.a = bis.a]_vars

\* The first iteration of a call priced a tie, did not return, and moved
\* the high end of the bracket to the midpoint.
C11_Witness ==
    /\ bis.state = "loop"
    /\ bis.i = 1
    /\ bis.mids = <<Midpoint(bis.low, bis.high)>>
    /\ blackScholesCall(bis.S, bis.K, bis.T, bis.r, bis.mids[1]) = bis.optionPrice
    /\ bis.a = bis.low
    /\ bis.b = bis.mids[1]

----------------------------------------------------------------------------
(* Claims about obtenerDiferenciaEnAnios *)

FechasReturned == fechas.state = "returned"
FormatsMatch ==
    /\ IsValidFormatDate(fechas.fecha1_str)
    /\ IsValidFormatExpirationDate(fechas.fecha2_str)

\* C10, as claimed: the result is -1 whenever a format check fails or the
\* expiration instant is not strictly after the observed instant, the equal
\* instants included; otherwise it is the elapsed time over a 365-day year,
\* which is strictly positive.
C10_StrictlyAfter ==
    FechasReturned =>
        IF ~FormatsMatch \/ fechas.time2 <= fechas.time1
        THEN fechas.ret = MinusOne
        ELSE /\ fechas.ret = YearsBetween(fechas.time1, fechas.time2)
             /\ fechas.ret > 0

\* C10, amended: the result is -1 whenever a format check fails or the
\* expiration instant is strictly before the observed instant; for equal
\* instants it is 0; otherwise it is the elapsed time over a 365-day year,
\* which is strictly positive.
C10_NotBefore ==
    FechasReturned =>
        IF ~FormatsMatch \/ fechas.time2 < fechas.time1
        THEN fechas.ret = MinusOne
        ELSE /\ fechas.ret = YearsBetween(fechas.time1, fechas.time2)
             /\ fechas.time2 = fechas.time1 => fechas.ret = 0
             /\ fechas.time2 > fechas.time1 => fechas.ret > 0

\* A call with two well-formed dates of the same instant has returned.
C10_Witness ==
    /\ FechasReturned
    /\ FormatsMatch
    /\ fechas.time2 = fechas.time1

----------------------------------------------------------------------------
(* Claims about main *)

\* C9: every output record whose bid or ask (resp. underlying bid or
\* underlying ask) still fails to parse after interpolation has a price
\* (resp. underlying price) that is not > 0 and the implied volatility -1;
\* every output record whose created_at is empty has an expiration that is
\* not > 0 and the implied volatility -1.
C9_SentinelFallback ==
    \A k \in 1..Len(dataframe) :
        LET d      == datos[k - 1]
            opcion == dataframe[k]
        IN  /\ (~Valid(d.bid) \/ ~Valid(d.ask)) =>
                   /\ ~(opcion.price > 0)
                   /\ opcion.implied_volatility = NoConvergence
            /\ (~Valid(d.underBid) \/ ~Valid(d.underAsk)) =>
                   /\ ~(opcion.under_price > 0)
                   /\ opcion.implied_volatility = NoConvergence
            /\ d.created_at = <<>> =>
                   /\ ~(opcion.expiration > 0)
                   /\ opcion.implied_volatility = NoConvergence

=============================================================================
